---- MODULE Spec2Model ----
(***************************************************************************)
(* A model of the two command-line programs of pdf-number-parser:          *)
(*   find_max_number.py   (find_numbers_in_pdf, detect_unit_multiplier,    *)
(*                         main)                                           *)
(*   pdf_number_parser.py (PDFNumberParser, main)                          *)
(*                                                                         *)
(* Representation.                                                         *)
(*  - A confidence is counted in tenths: the floats the code can produce   *)
(*    are min(1.0, n*0.3) and that plus 0.2, i.e. 0.3, 0.6, 0.899.., 1.0   *)
(*    and 0.5, 0.8, 1.099.., 1.2; they are ordered as 3, 6, 9, 10 and      *)
(*    5, 8, 11, 12 are, and 0.3 > 0.3 is false as 3 > 3 is.                *)
(*  - A value is a record [m, k] standing for m * 1000^k hundredths, so    *)
(*    that 1e12 and products of multipliers are exact; a multiplier is     *)
(*    the exponent k (1.0: 0, 1e3: 1, 1e6: 2, 1e9: 3, 1e12: 4).            *)
(*  - The text of a page is what the regular expressions of the program    *)
(*    find in it.  For find_max_number: the number of matches of each of   *)
(*    the twelve UNIT_PATTERNS and the numeric literals in scan order.     *)
(*    For pdf_number_parser: a sequence of words, each with its width in   *)
(*    characters, one separator character between two words.               *)
(***************************************************************************)
EXTENDS Integers, Sequences, FiniteSets, TLC

\* ------------------------------------------------------------------ bounds
MaxPages == 2
\* numeric literals in one find_max_number document
MaxNums == 2
\* unit-phrase occurrences in one find_max_number document
MaxOcc == 2
\* top_n of a direct call of find_numbers_in_pdf
MaxTopN == 2
\* words in one pdf_number_parser document
MaxTokens == 3
\* occurrences of one rule, and rules that occur, in a text span handed to
\* detect_unit_multiplier alone
MaxSpanOcc == 4
MaxSpanRules == 3

Min(a, b) == IF a < b THEN a ELSE b
Max(a, b) == IF a > b THEN a ELSE b

\* ------------------------------------------------------------------ values
\* A literal: its comma groups before the point, whether it has a decimal
\* part, and that part in hundredths.
Lit(groups, dec, frac) == [groups |-> groups, dec |-> dec, frac |-> frac]

RECURSIVE JoinGroups(_)
\* raw.replace(",", ""): the groups read as one integer
JoinGroups(groups) ==
    IF groups = <<>> THEN 0
    ELSE JoinGroups(SubSeq(groups, 1, Len(groups) - 1)) * 1000 + groups[Len(groups)]

\* float(raw.replace(",", "")), in hundredths
ParseFloat(lit) == JoinGroups(lit.groups) * 100 + (IF lit.dec THEN lit.frac ELSE 0)

\* every raw value of the model is below 1000^2 hundredths
Val(m, k) == [m |-> m, k |-> k]

\* x < y for x = x.m * 1000^x.k and y = y.m * 1000^y.k, with x.m, y.m < 1000^2
VLess(x, y) ==
    IF x.k = y.k THEN x.m < y.m
    ELSE IF x.k < y.k
         THEN IF y.m = 0 THEN FALSE
              ELSE IF y.k - x.k >= 2 THEN TRUE
              ELSE x.m < y.m * 1000
         ELSE IF x.m = 0 THEN y.m > 0
              ELSE IF x.k - y.k >= 2 THEN FALSE
              ELSE x.m * 1000 < y.m

VEq(x, y) == ~VLess(x, y) /\ ~VLess(y, x)

\* value * multiplier
VTimes(x, k) == Val(x.m, x.k + k)

\* ------------------------------------------------------- find_max_number
\* UNIT_PATTERNS, in order: the multiplier, whether 'all' or 'these' occurs in
\* the pattern's text, and whether the pattern holds \s+ (a match can then run
\* over the "\n" that joins two pages).
Rule(k, q, ws) == [multiplier |-> k, qualified |-> q, spans |-> ws]

UNIT_PATTERNS ==
    << Rule(2, TRUE, TRUE), Rule(2, FALSE, TRUE), Rule(2, FALSE, FALSE), Rule(2, FALSE, FALSE),
       Rule(3, TRUE, TRUE), Rule(3, FALSE, TRUE), Rule(3, FALSE, FALSE), Rule(3, FALSE, FALSE),
       Rule(1, TRUE, TRUE), Rule(1, FALSE, TRUE), Rule(1, FALSE, FALSE), Rule(1, FALSE, FALSE) >>

Rules == 1..Len(UNIT_PATTERNS)

NoOcc == [r \in Rules |-> 0]

\* confidence = min(1.0, len(matches) * 0.3), plus 0.2 for a qualified pattern
RuleConfidence(r, n) ==
    Min(10, n * 3) + (IF UNIT_PATTERNS[r].qualified THEN 2 ELSE 0)

\* variant: a later pattern of equal confidence replaces the earlier one
BetterMutant(confidence, max_confidence) == confidence >= max_confidence

\* if confidence > max_confidence
Better(confidence, max_confidence) == confidence > max_confidence

RECURSIVE DetectLoop(_, _, _, _)
\* the loop of detect_unit_multiplier from rule r on
DetectLoop(occ, r, best_multiplier, max_confidence) ==
    IF r > Len(UNIT_PATTERNS)
    THEN [multiplier |-> best_multiplier, confidence |-> max_confidence]
    ELSE IF occ[r] > 0 /\ Better(RuleConfidence(r, occ[r]), max_confidence)
         THEN DetectLoop(occ, r + 1, UNIT_PATTERNS[r].multiplier, RuleConfidence(r, occ[r]))
         ELSE DetectLoop(occ, r + 1, best_multiplier, max_confidence)

\* detect_unit_multiplier(text), text given by len(matches) of each pattern
detect_unit_multiplier(occ) == DetectLoop(occ, 1, 0, 0)


\* if confidence > 0.3, in tenths
Threshold == 3

\* def find_numbers_in_pdf(path, top_n: int = 5)
DefaultTopN == 5

\* variant: the multiplier is applied at the threshold itself
GateOpenMutant(confidence) == confidence >= Threshold

\* if confidence > 0.3: value *= multiplier
GateOpen(confidence) == confidence > Threshold

\* ---- the documents find_max_number is run on
\* The literals "450" and "1,234.56".
FMLits == { Lit(<<450>>, FALSE, 0), Lit(<<1, 234>>, TRUE, 56) }

\* The unit phrases of the documents: "figures are in millions" (rule 1) and
\* "$K" (rule 11).
DocRules == {1, 11}

RECURSIVE SumOver(_, _)
SumOver(f, S) ==
    IF S = {} THEN 0
    ELSE LET x == CHOOSE y \in S : TRUE IN f[x] + SumOver(f, S \ {x})

\* the patterns of the documents a match of which can run over a page join
SpanningDocRules == { r \in DocRules : UNIT_PATTERNS[r].spans }

\* the cut points that lay a text of len words out on n pages
Cuts(len, n) ==
    { c \in [1..(n - 1) -> 0..len] : \A i \in 1..(n - 2) : c[i] <= c[i + 1] }

\* the text t laid out on n pages, cut at c
Layout(t, n, c) ==
    [ i \in 1..n |-> SubSeq(t, (IF i = 1 THEN 0 ELSE c[i - 1]) + 1, IF i = n THEN Len(t) ELSE c[i]) ]

\* One page is: occ, the matches of each pattern in the page's text; over, the
\* matches of the full text that start in the page and end in the next one
\* (at most one per pattern and join, and only of a pattern with \s+); nums,
\* the numeric literals of the page in scan order.
FMDoc(n, occ, over, t, c) ==
    [ i \in 1..n |->
        [ occ  |-> [ r \in Rules |-> IF r \in DocRules THEN occ[r][i] ELSE 0 ],
          over |-> [ r \in Rules |-> IF r \in SpanningDocRules /\ i < n THEN over[r][i] ELSE 0 ],
          nums |-> Layout(t, n, c)[i] ] ]

\* the documents find_max_number is run on: at most MaxPages pages with at
\* most MaxOcc matches of unit patterns and MaxNums numeric literals in all
IsFMDoc(d) ==
    \E n \in 0..MaxPages :
        \E occ \in [DocRules -> [1..n -> 0..MaxOcc]] :
            \E over \in [SpanningDocRules -> [1..(n - 1) -> 0..1]] :
                /\ SumOver([r \in DocRules |-> SumOver(occ[r], 1..n)], DocRules)
                     + SumOver([r \in SpanningDocRules |-> SumOver(over[r], 1..(n - 1))], SpanningDocRules)
                     <= MaxOcc
                /\ \E len \in 0..(IF n = 0 THEN 0 ELSE MaxNums) :
                       \E t \in [1..len -> FMLits] :
                           \E c \in Cuts(len, n) : d = FMDoc(n, occ, over, t, c)

\* ---- find_numbers_in_pdf
RECURSIVE FullTextOccFrom(_, _)
FullTextOccFrom(pages, r) ==
    IF pages = <<>> THEN 0
    ELSE Head(pages).occ[r] + Head(pages).over[r] + FullTextOccFrom(Tail(pages), r)

\* variant: the document multiplier is detected on the first page only
FullTextOccMutant(pages) ==
    IF pages = <<>> THEN NoOcc ELSE Head(pages).occ

\* the matches of each pattern in full_text = "\n".join(text for _, text in text_by_page)
FullTextOcc(pages) == [r \in Rules |-> FullTextOccFrom(pages, r)]

\* variant: the page's own multiplier always, the document's never
EffectiveMultiplierMutant(page_d, base_d) == page_d.multiplier

\* multiplier = page_multiplier if page_confidence > base_confidence else base_multiplier
EffectiveMultiplier(page_d, base_d) ==
    IF page_d.confidence > base_d.confidence THEN page_d.multiplier ELSE base_d.multiplier

\* confidence = max(page_confidence, base_confidence)
EffectiveConfidence(page_d, base_d) == Max(page_d.confidence, base_d.confidence)

\* the NumberContext appended for the j-th match of a page; its context is
\* get_context(page_text, match.start()), given here by the match's place
NumberContext(lit, page_num, j, multiplier, confidence) ==
    [ value      |-> IF GateOpen(confidence)
                     THEN VTimes(Val(ParseFloat(lit), 0), multiplier)
                     ELSE Val(ParseFloat(lit), 0),
      raw_text   |-> lit,
      page_num   |-> page_num,
      context    |-> j,
      multiplier |-> multiplier,
      confidence |-> confidence ]

\* the body of the loop over text_by_page, for one page
PageNumbers(page, page_num, base_d) ==
    LET page_d == detect_unit_multiplier(page.occ)
    IN [ j \in 1..Len(page.nums) |->
           NumberContext(page.nums[j], page_num, j,
                         EffectiveMultiplier(page_d, base_d),
                         EffectiveConfidence(page_d, base_d)) ]

RECURSIVE ScanPages(_, _, _)
\* 3) for page_num, page_text in text_by_page, from page page_num on
ScanPages(pages, page_num, base_d) ==
    IF page_num > Len(pages) THEN <<>>
    ELSE PageNumbers(pages[page_num], page_num, base_d) \o ScanPages(pages, page_num + 1, base_d)

\* variant: an equal value is placed before the earlier ones
RECURSIVE InsertDescMutant(_, _)
InsertDescMutant(x, s) ==
    IF s = <<>> THEN <<x>>
    ELSE IF ~VLess(x.value, Head(s).value) THEN <<x>> \o s
    ELSE <<Head(s)>> \o InsertDescMutant(x, Tail(s))

RECURSIVE InsertDesc(_, _)
\* x placed after every element of s that is not smaller: sorted() is stable,
\* also with reverse=True
InsertDesc(x, s) ==
    IF s = <<>> THEN <<x>>
    ELSE IF VLess(Head(s).value, x.value) THEN <<x>> \o s
    ELSE <<Head(s)>> \o InsertDesc(x, Tail(s))

RECURSIVE SortedDesc(_)
\* sorted(numbers_found, key=lambda x: x.value, reverse=True)
SortedDesc(s) ==
    IF s = <<>> THEN <<>>
    ELSE InsertDesc(s[Len(s)], SortedDesc(SubSeq(s, 1, Len(s) - 1)))

\* s[:top_n], top_n >= 0
Slice(s, n) == SubSeq(s, 1, Min(n, Len(s)))


\* ----------------------------------------------------- pdf_number_parser
\* A word of a document: its text, its width in characters, the numeric
\* literal in it (NoLit: none) and whether a letter touches that literal.
NoLit == Lit(<<>>, FALSE, 0)

Word(text, width, lit, letter) == [text |-> text, width |-> width, lit |-> lit, letter |-> letter]

\* "Pad100" and "Pad1000" stand for runs of 100 and 1000 characters of text
\* with no digit, keyword or unit in it.
Words ==
    { Word("Dollars in Millions", 19, NoLit, FALSE),
      Word("Dollars in Thousands", 20, NoLit, FALSE),
      Word("budget", 6, NoLit, FALSE),
      Word("billion", 7, NoLit, FALSE),
      Word("Pad100", 100, NoLit, FALSE),
      Word("Pad1000", 1000, NoLit, FALSE),
      Word("3.50", 4, Lit(<<3>>, TRUE, 50), FALSE),
      Word("12.25", 5, Lit(<<12>>, TRUE, 25), FALSE),
      Word("x9.75", 5, Lit(<<9>>, TRUE, 75), TRUE) }

RECURSIVE PageLen(_)
\* len of a page's text: its words joined by one space
PageLen(page) ==
    IF page = <<>> THEN 0
    ELSE IF Len(page) = 1 THEN page[1].width
    ELSE page[1].width + 1 + PageLen(Tail(page))

RECURSIVE PlaceWords(_, _)
\* the words of a page with the offset each starts at, the page starting at off
PlaceWords(page, off) ==
    IF page = <<>> THEN <<>>
    ELSE <<[word |-> Head(page), start |-> off]>> \o PlaceWords(Tail(page), off + Head(page).width + 1)

RECURSIVE JoinPages(_, _)
\* "\n".join(text): the placed words, and the length of the text
JoinPages(pages, off) ==
    IF pages = <<>> THEN [words |-> <<>>, len |-> Max(0, off - 1)]
    ELSE LET rest == JoinPages(Tail(pages), off + PageLen(Head(pages)) + 1)
         IN [words |-> PlaceWords(Head(pages), off) \o rest.words, len |-> rest.len]

\* PDFNumberParser.extract_text
extract_text(pages) == JoinPages(pages, 0)

\* the span of the match of pattern in a placed word: the literal ends the word
MatchStart(pw) == pw.start + (IF pw.word.letter THEN 1 ELSE 0)
MatchEnd(pw) == pw.start + pw.word.width

\* pattern = r'-?\d{1,3}(?:,\d{3}){0,3}\.\d+' matches in the word
PatternMatches(pw) == pw.word.lit # NoLit /\ pw.word.lit.dec

\* PDFNumberParser.is_likely_code
is_likely_code(pw) == pw.word.letter

\* PDFNumberParser.detect_global_multiplier
detect_global_multiplier(text) ==
    IF \E i \in 1..Len(text.words) : text.words[i].word.text = "Dollars in Millions" THEN 2
    ELSE IF \E i \in 1..Len(text.words) : text.words[i].word.text = "Dollars in Thousands" THEN 1
    ELSE 0

\* the width of the context around a match for the keyword test, and for the
\* unit detection
KeywordWindow == 100
UnitWindow == 1000

\* text[max(0, s - w):min(len(text), e + w)]: the words wholly inside
Context(text, s, e, w) ==
    SelectSeq(text.words,
              LAMBDA pw : pw.start >= Max(0, s - w) /\ pw.start + pw.word.width <= Min(text.len, e + w))

\* any(keyword in context.lower() for keyword in ['budget', 'dollars', 'fund',
\* 'million', 'thousand', 'revenue', 'expense', 'total'])
HasKeyword(context) ==
    \E i \in 1..Len(context) :
        context[i].word.text \in {"Dollars in Millions", "Dollars in Thousands", "budget"}

\* the units re.search(rf"\b{unit}s?\b", lc) finds in a word
UnitsIn(word) ==
    IF word.text = "Dollars in Millions" THEN {"million"}
    ELSE IF word.text = "Dollars in Thousands" THEN {"thousand"}
    ELSE IF word.text = "billion" THEN {"billion"}
    ELSE {}

\* self.unit_multipliers, in insertion order
unit_multipliers ==
    << [unit |-> "trillion", multiplier |-> 4], [unit |-> "billion", multiplier |-> 3],
       [unit |-> "million", multiplier |-> 2], [unit |-> "thousand", multiplier |-> 1],
       [unit |-> "t", multiplier |-> 4], [unit |-> "b", multiplier |-> 3],
       [unit |-> "m", multiplier |-> 2], [unit |-> "k", multiplier |-> 1] >>

RECURSIVE LocalLoop(_, _)
LocalLoop(context, i) ==
    IF i > Len(unit_multipliers) THEN 0
    ELSE IF \E j \in 1..Len(context) : unit_multipliers[i].unit \in UnitsIn(context[j].word)
         THEN unit_multipliers[i].multiplier
         ELSE LocalLoop(context, i + 1)

\* PDFNumberParser.detect_local_multiplier
detect_local_multiplier(context) == LocalLoop(context, 1)

\* if raw_val > 1e13
Implausible(raw_val) == VLess(Val(1000, 4), Val(raw_val, 0))

\* the loop of find_largest_numbers: the (raw_val, m) kept
KeptNumbers(text) ==
    SelectSeq(text.words,
              LAMBDA pw : /\ PatternMatches(pw)
                          /\ ~is_likely_code(pw)
                          /\ ~Implausible(ParseFloat(pw.word.lit))
                          /\ HasKeyword(Context(text, MatchStart(pw), MatchEnd(pw), KeywordWindow)))

\* max(numbers, key=lambda x: x[0]): the first of the greatest
FirstMax(numbers) ==
    numbers[CHOOSE i \in 1..Len(numbers) :
               /\ \A j \in 1..Len(numbers) : ParseFloat(numbers[j].word.lit) <= ParseFloat(numbers[i].word.lit)
               /\ \A j \in 1..(i - 1) : ParseFloat(numbers[j].word.lit) < ParseFloat(numbers[i].word.lit)]

\* adjusted = raw_largest * global_mult * local_mult
Adjusted(raw_largest, g, l) == VTimes(VTimes(Val(raw_largest, 0), g), l)

\* find_largest_numbers after the numbers are found
LargestOf(text, numbers) ==
    LET m == FirstMax(numbers)
        raw_largest == ParseFloat(m.word.lit)
        g == detect_global_multiplier(text)
        l == detect_local_multiplier(Context(text, MatchStart(m), MatchEnd(m), UnitWindow))
    IN [ raw |-> raw_largest, global_mult |-> g, local_mult |-> l,
         adjusted |-> Adjusted(raw_largest, g, l) ]


\* ------------------------------------------------------------------- state
VARIABLES
    prog,           \* the program run: "find_max_number" or "pdf_number_parser"
    entry,          \* "main": the command line; "call": find_numbers_in_pdf called directly
    argc,           \* len(sys.argv)
    readable,       \* whether the file at the path opens and parses as a PDF
    pdf,            \* the pages of the file
    top_n,          \* find_numbers_in_pdf's top_n
    pc,             \* where the run is
    text_by_page,   \* find_numbers_in_pdf
    base,           \* base_multiplier, base_confidence
    numbers_found,
    results,        \* what find_numbers_in_pdf returns
    text,           \* find_largest_numbers
    numbers,
    largest,        \* what find_largest_numbers returns, and what it is made of
    report,         \* what main prints of the result
    exit_code       \* the exit status of the process, -1 while it runs

vars == << prog, entry, argc, readable, pdf, top_n, pc, text_by_page, base,
           numbers_found, results, text, numbers, largest, report, exit_code >>

NoDetection == [multiplier |-> 0, confidence |-> 0]
NoText == [words |-> <<>>, len |-> 0]
NoLargest == [raw |-> 0, global_mult |-> 0, local_mult |-> 0, adjusted |-> Val(0, 0)]

\* sys.exit(1) of both mains on a wrong argument count
UsageExit == 1
\* sys.exit(2) of find_max_number's except clause
FMErrorExit == 2
\* sys.exit(1) of pdf_number_parser's except clause
PErrorExit == 1

Fresh ==
    /\ text_by_page = <<>>
    /\ base = NoDetection
    /\ numbers_found = <<>>
    /\ results = <<>>
    /\ text = NoText
    /\ numbers = <<>>
    /\ largest = NoLargest
    /\ report = <<>>
    /\ exit_code = -1

\* the documents pdf_number_parser is run on: at most MaxTokens words on at
\* most MaxPages pages
IsPDoc(d) ==
    \E n \in 0..MaxPages :
        \E len \in 0..(IF n = 0 THEN 0 ELSE MaxTokens) :
            \E t \in [1..len -> Words] :
                \E c \in Cuts(len, n) : d = Layout(t, n, c)

\* The inputs: a command line with one, two or three words in sys.argv, a path
\* that is readable or not, and the document behind a readable path.
InitMain ==
    /\ prog \in {"find_max_number", "pdf_number_parser"}
    /\ entry = "main"
    /\ pc = "main"
    /\ top_n = DefaultTopN
    /\ argc \in {1, 2, 3}
    /\ readable \in BOOLEAN
    /\ (argc # 2 => readable)
    /\ IF argc # 2 \/ ~readable THEN pdf = <<>>
       ELSE IF prog = "find_max_number" THEN IsFMDoc(pdf)
       ELSE IsPDoc(pdf)

\* find_numbers_in_pdf(path, top_n) called directly
InitCall ==
    /\ prog = "find_max_number"
    /\ entry = "call"
    /\ pc = "call"
    /\ argc = 2
    /\ top_n = DefaultTopN
    /\ readable \in BOOLEAN
    /\ IF readable THEN IsFMDoc(pdf) ELSE pdf = <<>>

Init ==
    /\ InitMain \/ InitCall
    /\ Fresh

\* ---- find_max_number.main and find_numbers_in_pdf
\* if len(sys.argv) != 2: print usage; sys.exit(1)
FMMain ==
    /\ prog = "find_max_number" /\ pc = "main"
    /\ IF argc # 2
       THEN pc' = "exit" /\ exit_code' = UsageExit
       ELSE pc' = "call" /\ exit_code' = exit_code
    /\ UNCHANGED << prog, entry, argc, readable, pdf, top_n, text_by_page, base,
                    numbers_found, results, text, numbers, largest, report >>

\* find_numbers_in_pdf(path, top_n), called by main with the default top_n
\* and directly with any top_n from 0 to MaxTopN: pdfplumber.open raises, or
\*   1) every page's text is read,
\*   2) base_multiplier, base_confidence = detect_unit_multiplier(full_text),
\*   3) the numbers of each page are found,
\*   and sorted(numbers_found, key=lambda x: x.value, reverse=True)[:top_n]
\*   is returned
FMCall ==
    /\ prog = "find_max_number" /\ pc = "call"
    /\ IF readable
       THEN LET base_d == detect_unit_multiplier(FullTextOcc(pdf))
                found == ScanPages(pdf, 1, base_d)
                sorted == SortedDesc(found)
            IN /\ text_by_page' = pdf
               /\ base' = base_d
               /\ numbers_found' = found
               /\ \E n \in (IF entry = "main" THEN {DefaultTopN} ELSE 0..MaxTopN) :
                      /\ top_n' = n
                      /\ results' = Slice(sorted, n)
               /\ pc' = "return"
       ELSE /\ pc' = "raised"
            /\ UNCHANGED << top_n, text_by_page, base, numbers_found, results >>
    /\ UNCHANGED << prog, entry, argc, readable, pdf, text, numbers, largest,
                    report, exit_code >>

\* the lines main prints for one number; the unit line only
\* if num.multiplier != 1.0
FMReportLine(num) ==
    [ value |-> num.value, raw_text |-> num.raw_text, page |-> num.page_num,
      context |-> num.context,
      unit_line |-> num.multiplier # 0,
      multiplier |-> num.multiplier, confidence |-> num.confidence ]

\* variant: an empty list of numbers ends with the error status
FMReportExitMutant(top_numbers) == IF top_numbers = <<>> THEN FMErrorExit ELSE 0

\* main falls off its end after the report: the exit status is 0
FMReportExit(top_numbers) == 0

\* main prints the top numbers and returns
FMReport ==
    /\ prog = "find_max_number" /\ pc = "return" /\ entry = "main"
    /\ report' = [ i \in 1..Len(results) |-> FMReportLine(results[i]) ]
    /\ exit_code' = FMReportExit(results)
    /\ pc' = "exit"
    /\ UNCHANGED << prog, entry, argc, readable, pdf, top_n, text_by_page, base,
                    numbers_found, results, text, numbers, largest >>

\* except Exception as e: print; sys.exit(2)
FMExcept ==
    /\ prog = "find_max_number" /\ pc = "raised" /\ entry = "main"
    /\ exit_code' = FMErrorExit
    /\ pc' = "exit"
    /\ UNCHANGED << prog, entry, argc, readable, pdf, top_n, text_by_page, base,
                    numbers_found, results, text, numbers, largest, report >>

\* ---- pdf_number_parser.main and PDFNumberParser.find_largest_numbers
\* if len(sys.argv) != 2: print usage; sys.exit(1)
PMain ==
    /\ prog = "pdf_number_parser" /\ pc = "main"
    /\ IF argc # 2
       THEN pc' = "exit" /\ exit_code' = UsageExit
       ELSE pc' = "call" /\ exit_code' = exit_code
    /\ UNCHANGED << prog, entry, argc, readable, pdf, top_n, text_by_page, base,
                    numbers_found, results, text, numbers, largest, report >>

\* parser.find_largest_numbers(path): extract_text raises (open, PdfReader),
\* or the numbers are found; raise ValueError if not numbers, else return
\* adjusted and the context
PFindLargest ==
    /\ prog = "pdf_number_parser" /\ pc = "call"
    /\ IF readable
       THEN LET t == extract_text(pdf)
                kept == KeptNumbers(t)
            IN /\ text' = t
               /\ numbers' = kept
               /\ IF kept = <<>>
                  THEN pc' = "raised" /\ largest' = largest
                  ELSE pc' = "return" /\ largest' = LargestOf(t, kept)
       ELSE /\ pc' = "raised"
            /\ UNCHANGED << text, numbers, largest >>
    /\ UNCHANGED << prog, entry, argc, readable, pdf, top_n, text_by_page, base,
                    numbers_found, results, report, exit_code >>

\* main prints the largest number and returns: the exit status is 0
PReport ==
    /\ prog = "pdf_number_parser" /\ pc = "return"
    /\ report' = << [value |-> largest.adjusted] >>
    /\ exit_code' = 0
    /\ pc' = "exit"
    /\ UNCHANGED << prog, entry, argc, readable, pdf, top_n, text_by_page, base,
                    numbers_found, results, text, numbers, largest >>

\* variant: the except clause ends with status 0
PExceptMutant ==
    /\ prog = "pdf_number_parser" /\ pc = "raised"
    /\ exit_code' = 0
    /\ pc' = "exit"
    /\ UNCHANGED << prog, entry, argc, readable, pdf, top_n, text_by_page, base,
                    numbers_found, results, text, numbers, largest, report >>

\* except Exception as e: print; sys.exit(1)
PExcept ==
    /\ prog = "pdf_number_parser" /\ pc = "raised"
    /\ exit_code' = PErrorExit
    /\ pc' = "exit"
    /\ UNCHANGED << prog, entry, argc, readable, pdf, top_n, text_by_page, base,
                    numbers_found, results, text, numbers, largest, report >>

Next ==
    \/ FMMain \/ FMCall \/ FMReport \/ FMExcept
    \/ PMain \/ PFindLargest \/ PReport \/ PExcept

Spec == Init /\ [][Next]_vars


\* ---- detect_unit_multiplier called on one text span
\* The spans: every way for at most MaxSpanRules of the twelve patterns to
\* match, each at most MaxSpanOcc times.
SpanOcc(S, g) == [r \in Rules |-> IF r \in S THEN g[r] ELSE 0]

InitDetect ==
    /\ prog = "find_max_number"
    /\ entry = "detect"
    /\ pc = "detect_call"
    /\ argc = 2
    /\ top_n = DefaultTopN
    /\ readable = TRUE
    /\ \E S \in { T \in SUBSET Rules : Cardinality(T) <= MaxSpanRules } :
          \E g \in [S -> 1..MaxSpanOcc] :
              pdf = << [occ |-> SpanOcc(S, g), over |-> NoOcc, nums |-> <<>>] >>
    /\ Fresh

\* detect_unit_multiplier(text) for the text of the one page
DetectCall ==
    /\ pc = "detect_call"
    /\ base' = detect_unit_multiplier(pdf[1].occ)
    /\ pc' = "detected"
    /\ UNCHANGED << prog, entry, argc, readable, pdf, top_n, text_by_page,
                    numbers_found, results, text, numbers, largest, report, exit_code >>

NextDetect == DetectCall

SpecDetect == InitDetect /\ [][NextDetect]_vars

\* ---- find_max_in_pdf, which the tests import from find_max_number
\* the greatest value found, 0.0 when none is
find_max_in_pdf(top_numbers) ==
    IF top_numbers = <<>> THEN Val(0, 0) ELSE top_numbers[1].value

\* ------------------------------------------------------------------ claims
FM == prog = "find_max_number" /\ entry \in {"main", "call"}
Parser == prog = "pdf_number_parser"
FMReturned == FM /\ pc \in {"return", "exit"} /\ argc = 2 /\ readable
RawOf(num) == Val(ParseFloat(num.raw_text), 0)
Applied(num) == VEq(num.value, VTimes(RawOf(num), num.multiplier))
Found == { numbers_found[i] : i \in 1..Len(numbers_found) }
Reported == { results[i] : i \in 1..Len(results) }

\* the literals of the document handed to find_max_number
DocLits == UNION { { pdf[i].nums[j] : j \in 1..Len(pdf[i].nums) } : i \in 1..Len(pdf) }
\* no unit pattern matches anywhere in the document
NoUnitPhrase == \A i \in 1..Len(pdf) : pdf[i].occ = NoOcc /\ pdf[i].over = NoOcc
\* 'All figures are in millions' once on one page, and no other unit phrase
OneQualifiedMillions ==
    \E i \in 1..Len(pdf) :
        /\ pdf[i].occ = [NoOcc EXCEPT ![1] = 1] /\ pdf[i].over = NoOcc
        /\ \A j \in 1..Len(pdf) : j # i => pdf[j].occ = NoOcc /\ pdf[j].over = NoOcc
GreatestRaw == CHOOSE m \in { ParseFloat(l) : l \in DocLits } :
                   \A l \in DocLits : ParseFloat(l) <= m

\* C1 (as stated): for every scanned number, value = raw * multiplier if and
\* only if the effective confidence is above 0.3, and value = raw when it is
\* at most 0.3.
C1_AppliedIffAboveThreshold ==
    FM => \A num \in Found :
            /\ Applied(num) <=> num.confidence > 3
            /\ num.confidence <= 3 => VEq(num.value, RawOf(num))

\* C1 (amended): for every scanned number, value = raw * multiplier when the
\* effective confidence is above 0.3 and value = raw when it is at most 0.3;
\* value = raw * multiplier holds with a confidence of at most 0.3 exactly
\* when the effective multiplier is 1.0 or the raw value is 0.
C1_GateAtThreshold ==
    FM => \A num \in Found :
            /\ num.confidence > 3 => Applied(num)
            /\ num.confidence <= 3 => VEq(num.value, RawOf(num))
            /\ Applied(num) <=> (num.confidence > 3 \/ num.multiplier = 0 \/ RawOf(num).m = 0)

\* a number scanned under a single occurrence of an unqualified rule:
\* confidence exactly 0.3, a multiplier other than 1.0, and the raw value kept
C1_Witness ==
    FM /\ \E num \in Found :
            num.confidence = 3 /\ num.multiplier # 0 /\ num.value = RawOf(num)

\* C2: in both variants every reported value is the raw value or the raw
\* value times exactly one of 1e3, 1e6, 1e9, 1e12, never the raw value times
\* the product of two detected multipliers.
C2_OneMultiplier ==
    /\ FM => \A num \in Reported : \E k \in 0..4 : VEq(num.value, VTimes(RawOf(num), k))
    /\ Parser /\ pc \in {"return", "exit"} /\ numbers # <<>> =>
         /\ \E k \in 0..4 : VEq(largest.adjusted, Val(largest.raw, k))
         /\ ~(largest.global_mult # 0 /\ largest.local_mult # 0)

\* C3: the confidence detect_unit_multiplier returns, and the confidence of
\* every NumberContext, lies in [0, 1].
C3_ConfidenceInUnitInterval ==
    prog = "find_max_number" =>
        /\ base.confidence >= 0 /\ base.confidence <= 10
        /\ \A num \in Found : num.confidence >= 0 /\ num.confidence <= 10

\* C4: a result whose effective confidence is at most 0.3 is reported with
\* multiplier = 1, so a result carries another multiplier only when it was
\* applied to its value (and main prints the unit line only then).
C4_UnappliedMultiplierIsOne ==
    FM => /\ \A num \in Reported :
               /\ num.confidence <= 3 => num.multiplier = 0
               /\ num.multiplier # 0 => Applied(num) /\ num.confidence > 3
          /\ \A i \in 1..Len(report) : report[i].unit_line => report[i].confidence > 3

ScanBefore(a, b) ==
    \/ a.page_num < b.page_num
    \/ a.page_num = b.page_num /\ a.context < b.context

\* C5: find_numbers_in_pdf(path, top_n), top_n >= 0, returns exactly
\* min(top_n, number of matches) results, the ones with the greatest scaled
\* values, in descending order of scaled value; results of equal value are in
\* scan order, and of equal values at the cut the earlier scanned is kept.
C5_TopNStableDescending ==
    FMReturned =>
        /\ Len(results) = Min(top_n, Len(numbers_found))
        /\ Cardinality(Reported) = Len(results)
        /\ Reported \subseteq Found
        /\ \A i, j \in 1..Len(results) :
              i < j => /\ ~VLess(results[i].value, results[j].value)
                       /\ VEq(results[i].value, results[j].value) => ScanBefore(results[i], results[j])
        /\ \A kept \in Reported : \A cut \in Found \ Reported :
              /\ ~VLess(kept.value, cut.value)
              /\ VEq(kept.value, cut.value) => ScanBefore(kept, cut)

\* two matches of equal scaled value, one returned and one cut off
C5_Witness ==
    FMReturned /\ \E kept \in Reported : \E cut \in Found \ Reported :
                     VEq(kept.value, cut.value) /\ ScanBefore(kept, cut)

\* C6: for a document with at least one numeric literal (and top_n >= 1) the
\* greatest value reported is the greatest raw value when no unit phrase
\* occurs, and the greatest raw value times the detected multiplier when one
\* is detected with a confidence above 0.3; one 'All figures are in millions'
\* makes 450 report as 450e6.
C6_MaximumReported ==
    FMReturned /\ DocLits # {} /\ top_n >= 1 =>
        /\ NoUnitPhrase => VEq(results[1].value, Val(GreatestRaw, 0))
        /\ base.confidence > 3 => VEq(results[1].value, Val(GreatestRaw, base.multiplier))
        /\ OneQualifiedMillions /\ GreatestRaw = 45000 => results[1].value = Val(45000, 2)

\* a unit phrase on one page, the greatest of several literals on another
C6_Witness ==
    /\ FMReturned /\ top_n >= 1 /\ base.confidence > 3 /\ Len(pdf) = 2
    /\ Cardinality(DocLits) >= 2
    /\ \E i \in 1..2 : pdf[i].occ = NoOcc /\ \E j \in 1..Len(pdf[i].nums) : ParseFloat(pdf[i].nums[j]) = GreatestRaw

NoNumbersFound ==
    IF prog = "find_max_number" THEN numbers_found = <<>> ELSE numbers = <<>>

\* C8 (as stated): both programs exit with 0 only on success and with 1 or 2
\* on a wrong argument count, an unreadable file and no numbers found.
C8_NonZeroOnEveryError ==
    pc = "exit" =>
        IF argc # 2 \/ ~readable \/ NoNumbersFound
        THEN exit_code \in {1, 2}
        ELSE exit_code = 0

\* C8 (amended): both programs exit with 1 on a wrong argument count and with
\* a non-zero code on an unreadable file (find_max_number: 2,
\* pdf_number_parser: 1); pdf_number_parser exits with 1 when no number is
\* found, find_max_number then prints an empty report and exits with 0; every
\* other run exits with 0.
C8_ExitCodes ==
    pc = "exit" =>
        exit_code = IF argc # 2 THEN 1
                    ELSE IF ~readable THEN (IF Parser THEN 1 ELSE 2)
                    ELSE IF Parser /\ NoNumbersFound THEN 1
                    ELSE 0

\* pdf_number_parser has exited on a readable document none of whose numbers
\* passes the filters
C8_Witness ==
    Parser /\ pc = "exit" /\ argc = 2 /\ readable /\ NoNumbersFound /\ exit_code = 1
           /\ \E i \in 1..Len(text.words) : PatternMatches(text.words[i])

\* the claim's confidence of a rule, and the claim's families
ClaimedConfidence(r, n) ==
    (IF n * 3 < 10 THEN n * 3 ELSE 10) + (IF r \in {1, 5, 9} THEN 2 ELSE 0)
ClaimedFamily(r) == IF r <= 4 THEN 1 ELSE IF r <= 8 THEN 2 ELSE 3
ClaimedMultiplier(r) == IF r <= 4 THEN 2 ELSE IF r <= 8 THEN 3 ELSE 1

\* C9: detect_unit_multiplier returns the multiplier and confidence of the
\* rule of highest confidence among the rules that occur, of the first of
\* them in the order millions, billions, thousands when several share it, and
\* multiplier 1 with confidence 0 when no rule occurs.
C9_HighestConfidenceFirstInOrder ==
    pc = "detected" =>
        LET occ == pdf[1].occ
            occurring == { r \in Rules : occ[r] > 0 }
            top == { r \in occurring :
                       \A q \in occurring : ClaimedConfidence(q, occ[q]) <= ClaimedConfidence(r, occ[r]) }
        IN IF occurring = {} THEN base = [multiplier |-> 0, confidence |-> 0]
           ELSE \E r \in top :
                   /\ \A q \in top : ClaimedFamily(r) <= ClaimedFamily(q)
                   /\ base.multiplier = ClaimedMultiplier(r)
                   /\ base.confidence = ClaimedConfidence(r, occ[r])

\* rules of the three families share the highest confidence
C9_Witness ==
    /\ pc = "detected"
    /\ pdf[1].occ[3] = 2 /\ pdf[1].occ[6] = 2 /\ pdf[1].occ[12] = 2
    /\ base = [multiplier |-> 2, confidence |-> 6]

\* C10: no page's confidence exceeds the document's, so every number of a
\* document has the document's multiplier and confidence, the numbers are
\* all scaled by it or all left unscaled, and they rank by scaled value as
\* they rank by raw value.
C10_DocumentMultiplierEverywhere ==
    FM /\ pc = "return" =>
        /\ \A i \in 1..Len(text_by_page) :
              detect_unit_multiplier(text_by_page[i].occ).confidence <= base.confidence
        /\ \A num \in Found :
              /\ num.multiplier = base.multiplier
              /\ num.confidence = base.confidence
        /\ \A a, b \in Found :
              /\ a.value.k = b.value.k
              /\ VLess(a.value, b.value) <=> ParseFloat(a.raw_text) < ParseFloat(b.raw_text)

\* numbers on two pages, the second page with a unit phrase of its own that
\* the first lacks
C10_Witness ==
    /\ FM /\ pc = "return" /\ Len(text_by_page) = 2
    /\ text_by_page[1].occ = NoOcc /\ text_by_page[1].nums # <<>>
    /\ text_by_page[2].occ # NoOcc /\ text_by_page[2].nums # <<>>
    /\ base.confidence > 3

====
